---- MODULE Spec2Model ----
(***************************************************************************)
(* A model of lume-services' metadata store service (ModelDBService), of   *)
(* the database it talks to, and of the local run backend (LocalBackend).  *)
(*                                                                         *)
(* Tables are sequences of rows in insertion order.  The service's query   *)
(* and statement construction, its handling of the driver's results and    *)
(* its errors are translated from services/models/service.py; the schema   *)
(* (columns, keys, foreign keys), the driver (ModelDB.insert, insert_many, *)
(* select) and the keyword validation decorator are not part of the        *)
(* sources at hand and follow the written specification.                   *)
(***************************************************************************)
EXTENDS Integers, Sequences, FiniteSets, TLC

VARIABLES
    models,              \* table model
    deployments,         \* table deployment
    projects,            \* table project
    flows,               \* table flow
    flow_of_flows,       \* table flow_of_flows
    dependency_types,    \* table dependency_type
    dependencies,        \* table deployment_dependency
    inserted,            \* rows inserted since construction
    dep_stored,          \* per deployment id: descriptors stored by successful store_dependencies calls
    call,                \* the last call: operation, arguments, outcome, returned value, selects issued
    pc,                  \* concurrent callers of store_deployment: position of each
    stmt,                \* concurrent callers: the insert statement each has built
    db_result,           \* concurrent callers: what the driver's insert returned to each
    ret,                 \* concurrent callers: what store_deployment returned to each
    backend_working_dir, \* LocalBackend: the value of self.working_dir
    local_dirs           \* file service: the directories that exist in the "local" namespace

tables == <<models, deployments, projects, flows, flow_of_flows, dependency_types, dependencies>>
callers == <<pc, stmt, db_result, ret>>
backend == <<backend_working_dir, local_dirs>>
vars == <<models, deployments, projects, flows, flow_of_flows, dependency_types,
          dependencies, inserted, dep_stored, call, pc, stmt, db_result, ret,
          backend_working_dir, local_dirs>>

----------------------------------------------------------------------------
(* Bounds of the model *)

MaxInserts == 2
MaxDeps == 2
NumCallers == 2

----------------------------------------------------------------------------
(* Values the inputs are drawn from *)

Authors == {"a1", "a2"}
Laboratories == {"lab"}
Facilities == {"fac"}
Beampaths == {"beam"}
Descriptions == {"d2"}
Versions == {"v1"}
Sources == {"src"}
Hashes == {"sha"}
Images == {"img"}
ProjectNames == {"p1", "p2"}
ProjectDescriptions == {"d2"}
FlowIds == {"f3", "f4"}
FlowNames == {"flow"}
LiveFlags == {FALSE}
Descriptors ==
    {[name |-> "n1", type |-> "container", source |-> "hub", local_source |-> "/mirror",
      version |-> "1.0"],
     [name |-> "n2", type |-> "unknown", source |-> "pypi", version |-> "1.0"]}
Paths == {"/w1", "/w2", "/w3"}
Envs == {[OMP_NUM_THREADS |-> "1"], [OMP_NUM_THREADS |-> "2"]}
CallerFlags == {FALSE, TRUE}

None == "None"
Unset == "unset"
NoCall == [op |-> "none", args |-> <<>>, outcome |-> "ok", value |-> <<>>, selects |-> 0]

----------------------------------------------------------------------------
(* Helpers *)

Range(s) == {s[i] : i \in DOMAIN s}

Max(S) == CHOOSE x \in S : \A y \in S : y <= x

RECURSIVE Perms(_)
Perms(S) == IF S = {} THEN {<<>>}
            ELSE UNION {{<<x>> \o p : p \in Perms(S \ {x})} : x \in S}

SeqsUpTo(S, n) == UNION {[1..k -> S] : k \in 0..n}

----------------------------------------------------------------------------
(* Schema *)

ModelColumns == {"model_id", "author", "laboratory", "facility", "beampath", "description"}
DeploymentColumns == {"deployment_id", "model_id", "version", "source", "sha256", "image",
                      "is_live", "asset_dir", "deploy_date"}
ProjectColumns == {"project_name", "description"}
FlowColumns == {"flow_id", "deployment_id", "flow_name", "project_name"}
FlowOfFlowsColumns == {"_id", "parent_flow_id", "flow_id"}
DependencyColumns == {"id", "deployment_id", "name", "source", "local_source", "version",
                      "dependency_type_id"}

Table(name) ==
    CASE name = "model" -> models
      [] name = "deployment" -> deployments
      [] name = "project" -> projects
      [] name = "flow" -> flows
      [] name = "flow_of_flows" -> flow_of_flows
      [] name = "dependency_type" -> dependency_types
      [] name = "deployment_dependency" -> dependencies

Columns(name) ==
    CASE name = "model" -> ModelColumns
      [] name = "deployment" -> DeploymentColumns
      [] name = "project" -> ProjectColumns
      [] name = "flow" -> FlowColumns
      [] name = "flow_of_flows" -> FlowOfFlowsColumns
      [] name = "deployment_dependency" -> DependencyColumns

\* The relationship FlowOfFlows.flow: the member Flow row a grouping row references.
flow_of(res) == CHOOSE f \in Range(flows) : f.flow_id = res.flow_id

----------------------------------------------------------------------------
(* Database: what the engine does with the statements the driver hands it *)

NULL == 0

Ids(rows, col) == {rows[i][col] : i \in DOMAIN rows}

\* The readings of the database clock an insert may see: time does not go back.
Now ==
    LET last == IF deployments = <<>> THEN 0 ELSE Max(Ids(deployments, "deploy_date"))
    IN  {last, last + 1}

\* A scalar sub-select of dependency_type.id by type label: NULL when no row has it.
scalar_type_id(label) ==
    IF \E t \in Range(dependency_types) : t.type = label
    THEN (CHOOSE t \in Range(dependency_types) : t.type = label).id
    ELSE NULL

\* The row an insert statement would add: generated columns filled in.
new_row(st, now, k) ==
    CASE st.table = "model" ->
            [model_id |-> Len(models) + k] @@ st.values
      [] st.table = "deployment" ->
            [deployment_id |-> Len(deployments) + k, deploy_date |-> now] @@ st.values
      [] st.table = "project" -> st.values
      [] st.table = "flow" -> st.values
      [] st.table = "deployment_dependency" ->
            [id |-> Len(dependencies) + k,
             dependency_type_id |-> scalar_type_id(st.values.dependency_type_id.type)]
            @@ st.values

primary_key_ok(row, table) ==
    CASE table = "project" -> row.project_name \notin Ids(projects, "project_name")
      [] table = "flow" -> row.flow_id \notin Ids(flows, "flow_id")
      [] OTHER -> TRUE

\* Faulty variant: the engine enforces no foreign key.
foreign_keys_unchecked(row, table) == TRUE

foreign_keys_ok(row, table) ==
    CASE table = "deployment" -> row.model_id \in Ids(models, "model_id")
      [] table = "flow" ->
            /\ row.deployment_id \in Ids(deployments, "deployment_id")
            /\ row.project_name \in Ids(projects, "project_name")
      [] table = "deployment_dependency" ->
            /\ row.deployment_id \in Ids(deployments, "deployment_id")
            /\ row.dependency_type_id # NULL
            /\ row.dependency_type_id \in Ids(dependency_types, "id")
      [] OTHER -> TRUE

inserted_primary_key(row, table) ==
    CASE table = "model" -> <<row.model_id>>
      [] table = "deployment" -> <<row.deployment_id>>
      [] table = "project" -> <<row.project_name>>
      [] table = "flow" -> <<row.flow_id>>
      [] table = "deployment_dependency" -> <<row.id>>

\* ModelDB.insert: one statement, one row; a violated constraint raises and adds nothing.
db_insert(st, now) ==
    LET row == new_row(st, now, 1)
    IN  IF primary_key_ok(row, st.table) /\ foreign_keys_ok(row, st.table)
        THEN [ok |-> TRUE, rows |-> Append(Table(st.table), row),
              result |-> inserted_primary_key(row, st.table)]
        ELSE [ok |-> FALSE, rows |-> Table(st.table), result |-> <<>>]

\* ModelDB.insert_many: the statements as one batch.  All rows are added and their
\* ids returned, or the batch raises; whether the rows before the failing one stay
\* depends on the engine, so both outcomes are possible.
db_insert_many(stmts, now) ==
    LET n == Len(stmts)
        row(i) == new_row(stmts[i], now, i)
        good(i) == foreign_keys_ok(row(i), "deployment_dependency")
        bad == {i \in 1..n : ~good(i)}
        added(k) == [i \in 1..k |-> row(i)]
    IN  IF bad = {}
        THEN {[ok |-> TRUE, rows |-> dependencies \o added(n),
               result |-> [i \in 1..n |-> row(i).id]]}
        ELSE LET first == CHOOSE i \in bad : \A j \in bad : i <= j
             IN  {[ok |-> FALSE, rows |-> dependencies \o added(k), result |-> <<>>]
                     : k \in {0, first - 1}}

\* A query names a column the table does not have: building it raises.
query_valid(query) == DOMAIN query.filter \subseteq Columns(query.table)

load(query, row) ==
    IF query.joined = "dependency_type"
    THEN [dependency_type |->
            IF row.dependency_type_id \in Ids(dependency_types, "id")
            THEN CHOOSE t \in Range(dependency_types) : t.id = row.dependency_type_id
            ELSE None] @@ row
    ELSE row

\* ModelDB.select: the matching rows, in the order asked for; in any order when
\* the query asks for none.
db_select(query) ==
    LET matching == {r \in Range(Table(query.table)) :
                        \A k \in DOMAIN query.filter : r[k] = query.filter[k]}
        ordered(p) ==
            CASE query.order = "desc" ->
                    \A i, j \in DOMAIN p : i < j => p[i][query.order_by] >= p[j][query.order_by]
              [] query.order = "asc" ->
                    \A i, j \in DOMAIN p : i < j => p[i][query.order_by] <= p[j][query.order_by]
              [] OTHER -> TRUE
    IN  {[i \in DOMAIN p |-> load(query, p[i])] : p \in {q \in Perms(matching) : ordered(q)}}

\* The decorator validate_kwargs_exist(table): an undeclared keyword fails the call
\* before the decorated function runs.
validate_kwargs_exist(table, kwargs, inner) ==
    IF DOMAIN kwargs \subseteq Columns(table)
    THEN inner
    ELSE {[outcome |-> "ValidationError", value |-> <<>>, selects |-> 0]}

----------------------------------------------------------------------------
(* ModelDBService: the store operations *)

Raised(error) == [outcome |-> error, value |-> <<>>, selects |-> 0]

\* Faulty variant: laboratory and facility change places in the inserted values.
store_model_stmt_swapped(author, laboratory, facility, beampath, description) ==
    [table |-> "model",
     values |-> [author |-> author, laboratory |-> facility, facility |-> laboratory,
                 beampath |-> beampath, description |-> description]]

store_model_stmt(author, laboratory, facility, beampath, description) ==
    [table |-> "model",
     values |-> [author |-> author, laboratory |-> laboratory, facility |-> facility,
                 beampath |-> beampath, description |-> description]]

store_model_return(res) == IF Len(res) > 0 THEN <<res[1]>> ELSE <<>>

store_deployment_stmt(model_id, version, source, sha256, image, is_live, asset_dir) ==
    [table |-> "deployment",
     values |-> [model_id |-> model_id, version |-> version, source |-> source,
                 sha256 |-> sha256, image |-> image, is_live |-> is_live,
                 asset_dir |-> asset_dir]]

\* Faulty variant: the id returned is read back from the table instead of the insert's result.
store_deployment_return_last(res) ==
    IF Len(deployments) > 0 THEN <<deployments[Len(deployments)].deployment_id>> ELSE <<>>

store_deployment_return(res) == IF Len(res) > 0 THEN <<res[1]>> ELSE <<>>

store_project_stmt(project_name, description) ==
    [table |-> "project",
     values |-> [project_name |-> project_name, description |-> description]]

store_project_return(res) == IF Len(res) > 0 THEN <<res[1]>> ELSE <<>>

store_flow_stmt(deployment_id, flow_id, flow_name, project_name) ==
    [table |-> "flow",
     values |-> [flow_id |-> flow_id, deployment_id |-> deployment_id,
                 flow_name |-> flow_name, project_name |-> project_name]]

store_flow_return(res) == IF Len(res) > 0 THEN <<res[1]>> ELSE <<>>

dict_get(dep, key) == IF key \in DOMAIN dep THEN dep[key] ELSE None

\* Faulty variant: the loop stops one descriptor short.
store_dependencies_stmts_short(deps, deployment_id) ==
    [i \in 1..(Len(deps) - 1) |->
        [table |-> "deployment_dependency",
         values |-> [deployment_id |-> deployment_id,
                     name |-> deps[i].name,
                     source |-> deps[i].source,
                     local_source |-> dict_get(deps[i], "local_source"),
                     version |-> deps[i].version,
                     dependency_type_id |-> [type |-> deps[i].type]]]]

store_dependencies_stmts(deps, deployment_id) ==
    [i \in 1..Len(deps) |->
        [table |-> "deployment_dependency",
         values |-> [deployment_id |-> deployment_id,
                     name |-> deps[i].name,
                     source |-> deps[i].source,
                     local_source |-> dict_get(deps[i], "local_source"),
                     version |-> deps[i].version,
                     dependency_type_id |-> [type |-> deps[i].type]]]]

store_dependencies_return(res) == IF Len(res) > 0 THEN <<res>> ELSE <<>>

\* What one insert call leaves in `call`: the driver's error, or the value returned.
Stored(op, args, r, value) ==
    [op |-> op, args |-> args, outcome |-> IF r.ok THEN "ok" ELSE "DriverError",
     value |-> IF r.ok THEN value ELSE <<>>, selects |-> 0]

\* store_model is decorated: its keywords are validated against Model's columns.
store_model_call(author, laboratory, facility, beampath, description) ==
    LET st == store_model_stmt(author, laboratory, facility, beampath, description)
        r == db_insert(st, 0)
    IN  validate_kwargs_exist("model", st.values,
            {[rows |-> r.rows] @@
             Stored("store_model", st.values, r, store_model_return(r.result))})

store_model ==
    \E author \in Authors, laboratory \in Laboratories, facility \in Facilities,
       beampath \in Beampaths, description \in Descriptions :
        \E o \in store_model_call(author, laboratory, facility, beampath, description) :
            /\ inserted < MaxInserts
            /\ models' = IF "rows" \in DOMAIN o THEN o.rows ELSE models
            /\ inserted' = inserted + Len(models') - Len(models)
            /\ call' = [op |-> "store_model",
                        args |-> [author |-> author, laboratory |-> laboratory,
                                  facility |-> facility, beampath |-> beampath,
                                  description |-> description],
                        outcome |-> o.outcome, value |-> o.value, selects |-> o.selects]
            /\ UNCHANGED <<deployments, projects, flows, flow_of_flows, dependency_types,
                           dependencies, dep_stored, callers, backend>>

store_deployment ==
    \E model_id \in 1..(Len(models) + 1), version \in Versions, source \in Sources,
       sha256 \in Hashes, image \in Images, is_live \in LiveFlags, now \in Now :
        LET st == store_deployment_stmt(model_id, version, source, sha256, image, is_live, None)
            r == db_insert(st, now)
        IN  /\ inserted < MaxInserts
            /\ deployments' = r.rows
            /\ inserted' = inserted + Len(r.rows) - Len(deployments)
            /\ call' = Stored("store_deployment", st.values, r, store_deployment_return(r.result))
            /\ UNCHANGED <<models, projects, flows, flow_of_flows, dependency_types,
                           dependencies, dep_stored, callers, backend>>

\* Faulty variant: the project is merged: a row with the same name is overwritten.
store_project_merge ==
    \E project_name \in ProjectNames, description \in ProjectDescriptions :
        LET st == store_project_stmt(project_name, description)
        IN  /\ inserted < MaxInserts
            /\ projects' =
                IF project_name \in Ids(projects, "project_name")
                THEN [i \in DOMAIN projects |->
                        IF projects[i].project_name = project_name THEN st.values
                        ELSE projects[i]]
                ELSE Append(projects, st.values)
            /\ inserted' = inserted + Len(projects') - Len(projects)
            /\ call' = [op |-> "store_project", args |-> st.values, outcome |-> "ok",
                        value |-> <<project_name>>, selects |-> 0]
            /\ UNCHANGED <<models, deployments, flows, flow_of_flows, dependency_types,
                           dependencies, dep_stored, callers, backend>>

store_project ==
    \E project_name \in ProjectNames, description \in ProjectDescriptions :
        LET st == store_project_stmt(project_name, description)
            r == db_insert(st, 0)
        IN  /\ inserted < MaxInserts
            /\ projects' = r.rows
            /\ inserted' = inserted + Len(r.rows) - Len(projects)
            /\ call' = Stored("store_project", st.values, r, store_project_return(r.result))
            /\ UNCHANGED <<models, deployments, flows, flow_of_flows, dependency_types,
                           dependencies, dep_stored, callers, backend>>

store_flow ==
    \E deployment_id \in 1..(Len(deployments) + 1), flow_id \in FlowIds,
       flow_name \in FlowNames, project_name \in ProjectNames :
        LET st == store_flow_stmt(deployment_id, flow_id, flow_name, project_name)
            r == db_insert(st, 0)
        IN  /\ inserted < MaxInserts
            /\ flows' = r.rows
            /\ inserted' = inserted + Len(r.rows) - Len(flows)
            /\ call' = Stored("store_flow", st.values, r, store_flow_return(r.result))
            /\ UNCHANGED <<models, deployments, projects, flow_of_flows, dependency_types,
                           dependencies, dep_stored, callers, backend>>

StoredCount(d) == IF d \in DOMAIN dep_stored THEN dep_stored[d] ELSE 0

store_dependencies ==
    \E deps \in SeqsUpTo(Descriptors, MaxDeps), deployment_id \in 1..(Len(deployments) + 1) :
        /\ inserted + Len(deps) <= MaxInserts
        /\ \E r \in db_insert_many(store_dependencies_stmts(deps, deployment_id), 0) :
            /\ dependencies' = r.rows
            /\ inserted' = inserted + Len(r.rows) - Len(dependencies)
            /\ dep_stored' =
                IF r.ok
                THEN [d \in DOMAIN dep_stored \cup {deployment_id} |->
                        IF d = deployment_id THEN StoredCount(d) + Len(deps)
                        ELSE dep_stored[d]]
                ELSE dep_stored
            /\ call' = Stored("store_dependencies",
                              [dependencies |-> deps, deployment_id |-> deployment_id],
                              r, store_dependencies_return(r.result))
            /\ UNCHANGED <<models, deployments, projects, flows, flow_of_flows,
                           dependency_types, callers, backend>>

----------------------------------------------------------------------------
(* ModelDBService: the lookups.  Each gives the set of outcomes the call can have, *)
(* one per order in which the driver may return the rows.                          *)

Select(table, kwargs, order, order_by, joined) ==
    [table |-> table, filter |-> kwargs, order |-> order, order_by |-> order_by,
     joined |-> joined]

Returned(value) == [outcome |-> "ok", value |-> <<value>>, selects |-> 1]
NotFound(error) == [outcome |-> error, value |-> <<>>, selects |-> 1]

get_model_query(kwargs) == Select("model", kwargs, "none", "", "")
get_model_return(res) ==
    IF Len(res) > 0 THEN Returned(res[1]) ELSE NotFound("ModelNotFoundError")
get_model_body(kwargs) ==
    LET query == get_model_query(kwargs)
    IN  IF query_valid(query)
        THEN {get_model_return(res) : res \in db_select(query)}
        ELSE {Raised("InvalidRequestError")}
get_model(kwargs) == validate_kwargs_exist("model", kwargs, get_model_body(kwargs))

get_deployment_query(kwargs) == Select("deployment", kwargs, "none", "", "")
get_deployment_return(res) ==
    IF Len(res) > 0 THEN Returned(res[1]) ELSE NotFound("DeploymentNotFoundError")
get_deployment_body(kwargs) ==
    LET query == get_deployment_query(kwargs)
    IN  IF query_valid(query)
        THEN {get_deployment_return(res) : res \in db_select(query)}
        ELSE {Raised("InvalidRequestError")}
get_deployment(kwargs) == validate_kwargs_exist("deployment", kwargs, get_deployment_body(kwargs))

\* Faulty variant: the order is ascending.
get_latest_deployment_query_asc(kwargs) == Select("deployment", kwargs, "asc", "deploy_date", "")

get_latest_deployment_query(kwargs) == Select("deployment", kwargs, "desc", "deploy_date", "")
get_latest_deployment_return(res) ==
    IF Len(res) > 0 THEN Returned(res[1]) ELSE NotFound("DeploymentNotFoundError")
get_latest_deployment_body(kwargs) ==
    LET query == get_latest_deployment_query(kwargs)
    IN  IF query_valid(query)
        THEN {get_latest_deployment_return(res) : res \in db_select(query)}
        ELSE {Raised("InvalidRequestError")}
get_latest_deployment(kwargs) == validate_kwargs_exist("deployment", kwargs, get_latest_deployment_body(kwargs))

get_project_query(kwargs) == Select("project", kwargs, "none", "", "")
get_project_return(res) ==
    IF Len(res) > 0 THEN Returned(res[1]) ELSE NotFound("ProjectNotFoundError")
get_project_body(kwargs) ==
    LET query == get_project_query(kwargs)
    IN  IF query_valid(query)
        THEN {get_project_return(res) : res \in db_select(query)}
        ELSE {Raised("InvalidRequestError")}
get_project(kwargs) == validate_kwargs_exist("project", kwargs, get_project_body(kwargs))

get_flow_query(kwargs) == Select("flow", kwargs, "none", "", "")
get_flow_return(res) ==
    IF Len(res) > 0 THEN Returned(res[1]) ELSE NotFound("FlowNotFoundError")
get_flow_body(kwargs) ==
    LET query == get_flow_query(kwargs)
    IN  IF query_valid(query)
        THEN {get_flow_return(res) : res \in db_select(query)}
        ELSE {Raised("InvalidRequestError")}
get_flow(kwargs) == validate_kwargs_exist("flow", kwargs, get_flow_body(kwargs))

get_flow_of_flows_query(kwargs) == Select("flow_of_flows", kwargs, "none", "", "")
\* Faulty variant: the grouping rows themselves are returned.
get_flow_of_flows_return_rows(res) ==
    IF Len(res) > 0 THEN Returned(res) ELSE NotFound("FlowOfFlowsNotFoundError")

get_flow_of_flows_return(res) ==
    IF Len(res) > 0
    THEN Returned([i \in DOMAIN res |-> flow_of(res[i])])
    ELSE NotFound("FlowOfFlowsNotFoundError")
get_flow_of_flows_body(kwargs) ==
    LET query == get_flow_of_flows_query(kwargs)
    IN  IF query_valid(query)
        THEN {get_flow_of_flows_return(res) : res \in db_select(query)}
        ELSE {Raised("InvalidRequestError")}
\* Faulty variant: the decorator is missing.
get_flow_of_flows_undecorated(kwargs) == get_flow_of_flows_body(kwargs)

get_flow_of_flows(kwargs) == validate_kwargs_exist("flow_of_flows", kwargs, get_flow_of_flows_body(kwargs))

get_dependencies_query(deployment_id) ==
    Select("deployment_dependency", [deployment_id |-> deployment_id], "none", "",
           "dependency_type")
\* Faulty variant: an empty list is returned instead of raising.
get_dependencies_return_empty(deps) == Returned(deps)

get_dependencies_return(deps) ==
    IF Len(deps) > 0 THEN Returned(deps) ELSE NotFound("DeploymentNotFoundError")
get_dependencies(deployment_id) ==
    {get_dependencies_return(deps) : deps \in db_select(get_dependencies_query(deployment_id))}

----------------------------------------------------------------------------
(* The criteria the lookups are called with: none, declared columns, and names *)
(* that the table does not declare.                                            *)

ModelCriteria ==
    <<<<>>,
      [model_id |-> 2],
      [author |-> "a1", laboratory |-> "lab", facility |-> "fac", beampath |-> "beam"],
      [author |-> "a1", owner |-> "a1"]>>

DeploymentCriteria == <<[model_id |-> 1], [model_id |-> 2], [tag |-> "v1"]>>

ProjectCriteria == <<<<>>, [project_name |-> "p2"], [name |-> "p1"]>>

FlowCriteria == <<[flow_id |-> "f4"], [deployment_id |-> 1], [name |-> "flow"]>>

FlowOfFlowsCriteria ==
    <<[parent_flow_id |-> "f1"], [parent_flow_id |-> "f2"], [parent_flow_id |-> "f3"],
      [parent |-> "f1"]>>

Looked(op, args, o) ==
    /\ call' = [op |-> op, args |-> args, outcome |-> o.outcome, value |-> o.value,
                selects |-> o.selects]
    /\ UNCHANGED <<tables, inserted, dep_stored, callers, backend>>

get_model_call ==
    \E i \in DOMAIN ModelCriteria : \E o \in get_model(ModelCriteria[i]) :
        Looked("get_model", ModelCriteria[i], o)

get_deployment_call ==
    \E i \in DOMAIN DeploymentCriteria : \E o \in get_deployment(DeploymentCriteria[i]) :
        Looked("get_deployment", DeploymentCriteria[i], o)

get_latest_deployment_call ==
    \E i \in DOMAIN DeploymentCriteria : \E o \in get_latest_deployment(DeploymentCriteria[i]) :
        Looked("get_latest_deployment", DeploymentCriteria[i], o)

get_project_call ==
    \E i \in DOMAIN ProjectCriteria : \E o \in get_project(ProjectCriteria[i]) :
        Looked("get_project", ProjectCriteria[i], o)

get_flow_call ==
    \E i \in DOMAIN FlowCriteria : \E o \in get_flow(FlowCriteria[i]) :
        Looked("get_flow", FlowCriteria[i], o)

get_flow_of_flows_call ==
    \E i \in DOMAIN FlowOfFlowsCriteria : \E o \in get_flow_of_flows(FlowOfFlowsCriteria[i]) :
        Looked("get_flow_of_flows", FlowOfFlowsCriteria[i], o)

get_dependencies_call ==
    \E deployment_id \in 1..(Len(deployments) + 1) : \E o \in get_dependencies(deployment_id) :
        Looked("get_dependencies", [deployment_id |-> deployment_id], o)

----------------------------------------------------------------------------
(* The service is constructed over a database: a fresh one, holding only the   *)
(* dependency types, or one that already holds a model, a deployment, a        *)
(* project, three flows and two flow-of-flows groupings.                       *)

SeedTypes == <<[id |-> 1, type |-> "package"], [id |-> 2, type |-> "container"]>>

SeedFlow(flow_id) ==
    [flow_id |-> flow_id, deployment_id |-> 1, flow_name |-> "flow", project_name |-> "p1"]

FreshDatabase ==
    /\ models = <<>>
    /\ deployments = <<>>
    /\ projects = <<>>
    /\ flows = <<>>
    /\ flow_of_flows = <<>>

ExistingDatabase ==
    /\ models = <<[model_id |-> 1, author |-> "a1", laboratory |-> "lab", facility |-> "fac",
                   beampath |-> "beam", description |-> "d1"]>>
    /\ deployments = <<[deployment_id |-> 1, deploy_date |-> 0, model_id |-> 1,
                        version |-> "v1", source |-> "src", sha256 |-> "sha",
                        image |-> "img", is_live |-> FALSE, asset_dir |-> None]>>
    /\ projects = <<[project_name |-> "p1", description |-> "d1"]>>
    /\ flows = <<SeedFlow("f1"), SeedFlow("f2"), SeedFlow("f3")>>
    /\ flow_of_flows = <<[_id |-> 1, parent_flow_id |-> "f1", flow_id |-> "f2"],
                         [_id |-> 2, parent_flow_id |-> "f1", flow_id |-> "f3"],
                         [_id |-> 3, parent_flow_id |-> "f2", flow_id |-> "f3"]>>

Callers == 1..NumCallers

IdleCallers ==
    /\ pc = [p \in Callers |-> "idle"]
    /\ stmt = [p \in Callers |-> <<>>]
    /\ db_result = [p \in Callers |-> <<>>]
    /\ ret = [p \in Callers |-> <<>>]

NoBackend ==
    /\ backend_working_dir = Unset
    /\ local_dirs = {}

Init ==
    /\ FreshDatabase \/ ExistingDatabase
    /\ dependency_types = SeedTypes
    /\ dependencies = <<>>
    /\ inserted = 0
    /\ dep_stored = <<>>
    /\ call = NoCall
    /\ IdleCallers
    /\ NoBackend

Next ==
    \/ store_model
    \/ store_deployment
    \/ store_project
    \/ store_flow
    \/ store_dependencies
    \/ get_model_call
    \/ get_deployment_call
    \/ get_latest_deployment_call
    \/ get_project_call
    \/ get_flow_call
    \/ get_flow_of_flows_call
    \/ get_dependencies_call

Spec == Init /\ [][Next]_vars

----------------------------------------------------------------------------
(* Concurrent callers of store_deployment.  A call builds its statement, hands *)
(* it to the driver, which executes it as one statement, and returns what the  *)
(* driver gave back; callers interleave between these steps.                   *)

begin_store_deployment(p) ==
    /\ pc[p] = "idle"
    /\ \E model_id \in Ids(models, "model_id"), version \in Versions, source \in Sources,
          sha256 \in Hashes, image \in Images, is_live \in CallerFlags :
            stmt' = [stmt EXCEPT ![p] = store_deployment_stmt(model_id, version, source,
                                                              sha256, image, is_live, None)]
    /\ pc' = [pc EXCEPT ![p] = "insert"]
    /\ UNCHANGED <<tables, inserted, dep_stored, call, db_result, ret, backend>>

insert_deployment(p) ==
    /\ pc[p] = "insert"
    /\ \E now \in Now :
        LET r == db_insert(stmt[p], now)
        IN  /\ deployments' = r.rows
            /\ inserted' = inserted + Len(r.rows) - Len(deployments)
            /\ db_result' = [db_result EXCEPT ![p] = r.result]
            /\ pc' = [pc EXCEPT ![p] = IF r.ok THEN "return" ELSE "raised"]
    /\ UNCHANGED <<models, projects, flows, flow_of_flows, dependency_types, dependencies,
                   dep_stored, call, stmt, ret, backend>>

return_store_deployment(p) ==
    /\ pc[p] = "return"
    /\ ret' = [ret EXCEPT ![p] = store_deployment_return(db_result[p])]
    /\ pc' = [pc EXCEPT ![p] = "done"]
    /\ UNCHANGED <<tables, inserted, dep_stored, call, stmt, db_result, backend>>

InitConc ==
    /\ ExistingDatabase
    /\ dependency_types = SeedTypes
    /\ dependencies = <<>>
    /\ inserted = 0
    /\ dep_stored = <<>>
    /\ call = NoCall
    /\ IdleCallers
    /\ NoBackend

NextConc ==
    \E p \in Callers :
        \/ begin_store_deployment(p)
        \/ insert_deployment(p)
        \/ return_store_deployment(p)

SpecConc == InitConc /\ [][NextConc]_vars

----------------------------------------------------------------------------
(* LocalBackend.get_run *)

\* FileService.dir_exists
dir_exists(namespace, path) == namespace = "local" /\ path \in local_dirs

LocalRun(env, working_dir) == [env |-> env, working_dir |-> working_dir]

get_run_result(run_config) ==
    IF backend_working_dir = Unset
    THEN Raised("AttributeError")
    ELSE IF ~dir_exists("local", backend_working_dir)
         THEN Raised("FileNotFoundError")
         ELSE [outcome |-> "ok",
               value |-> <<LocalRun(run_config.env, run_config.working_dir)>>,
               selects |-> 0]

get_run ==
    \E env \in Envs, working_dir \in Paths \cup {None} :
        LET run_config == [env |-> env, working_dir |-> working_dir]
            o == get_run_result(run_config)
        IN  /\ call' = [op |-> "get_run", args |-> run_config, outcome |-> o.outcome,
                        value |-> o.value, selects |-> o.selects]
            /\ UNCHANGED <<tables, inserted, dep_stored, callers, backend>>

InitRun ==
    /\ FreshDatabase
    /\ dependency_types = SeedTypes
    /\ dependencies = <<>>
    /\ inserted = 0
    /\ dep_stored = <<>>
    /\ call = NoCall
    /\ IdleCallers
    /\ backend_working_dir \in Paths \cup {Unset}
    /\ local_dirs \in SUBSET Paths

NextRun == get_run

SpecRun == InitRun /\ [][NextRun]_vars

----------------------------------------------------------------------------
(* Properties *)

LookupOps == {"get_model", "get_deployment", "get_latest_deployment", "get_project",
              "get_flow", "get_flow_of_flows", "get_dependencies"}
CriteriaOps == LookupOps \ {"get_dependencies"}
StoreOps == {"store_model", "store_deployment", "store_project", "store_flow",
             "store_dependencies"}

LookupTable(op) ==
    CASE op = "get_model" -> "model"
      [] op \in {"get_deployment", "get_latest_deployment"} -> "deployment"
      [] op = "get_project" -> "project"
      [] op = "get_flow" -> "flow"
      [] op = "get_flow_of_flows" -> "flow_of_flows"
      [] op = "get_dependencies" -> "deployment_dependency"

LookupError(op) ==
    CASE op = "get_model" -> "ModelNotFoundError"
      [] op \in {"get_deployment", "get_latest_deployment", "get_dependencies"} ->
            "DeploymentNotFoundError"
      [] op = "get_project" -> "ProjectNotFoundError"
      [] op = "get_flow" -> "FlowNotFoundError"
      [] op = "get_flow_of_flows" -> "FlowOfFlowsNotFoundError"

DeclaredCriteria(op, kwargs) == DOMAIN kwargs \subseteq Columns(LookupTable(op))

MatchingRows(table, kwargs) ==
    {r \in Range(Table(table)) : \A k \in DOMAIN kwargs : r[k] = kwargs[k]}

\* C1: a lookup whose criteria match no row fails with the not-found error of its
\* entity and returns no value.
C1_NotFoundOnZeroRows ==
    (/\ call.op \in LookupOps
     /\ DeclaredCriteria(call.op, call.args)
     /\ MatchingRows(LookupTable(call.op), call.args) = {})
    => /\ call.outcome = LookupError(call.op)
       /\ Len(call.value) = 0

\* C1 witness: dependencies are stored, and get_dependencies for a deployment that has
\* none has raised DeploymentNotFoundError.
C1_Witness ==
    /\ call.op = "get_dependencies"
    /\ dependencies # <<>>
    /\ MatchingRows("deployment_dependency", call.args) = {}
    /\ call.outcome = "DeploymentNotFoundError"

\* C2: a lookup given a criterion that is no declared column of its record type fails
\* with a validation error, and the driver has received no select for the call.
C2_ValidationBeforeQuery ==
    (call.op \in CriteriaOps /\ ~DeclaredCriteria(call.op, call.args))
    => /\ call.outcome = "ValidationError"
       /\ call.selects = 0

\* C2 witness: get_flow_of_flows was called with an undeclared criterion on a database
\* that holds groupings, and failed validation.
C2_Witness ==
    /\ call.op = "get_flow_of_flows"
    /\ ~DeclaredCriteria(call.op, call.args)
    /\ flow_of_flows # <<>>
    /\ call.outcome = "ValidationError"

\* C4: get_latest_deployment returns a matching row that no matching row is deployed
\* later than, and fails with DeploymentNotFoundError when no row matches.
C4_LatestDeployment ==
    (call.op = "get_latest_deployment" /\ DeclaredCriteria(call.op, call.args))
    => LET matching == MatchingRows("deployment", call.args)
       IN  IF matching = {}
           THEN call.outcome = "DeploymentNotFoundError" /\ Len(call.value) = 0
           ELSE /\ call.outcome = "ok"
                /\ Len(call.value) = 1
                /\ call.value[1] \in matching
                /\ \A r \in matching : r.deploy_date <= call.value[1].deploy_date

\* C4 witness: three deployments of one model, deployed at three different times, and
\* get_latest_deployment for that model has returned one.
C4_Witness ==
    /\ call.op = "get_latest_deployment"
    /\ call.outcome = "ok"
    /\ LET matching == MatchingRows("deployment", call.args)
       IN  /\ Cardinality(matching) = 3
           /\ Cardinality({r.deploy_date : r \in matching}) = 3

ModelKey(values) ==
    [author |-> values.author, laboratory |-> values.laboratory,
     facility |-> values.facility, beampath |-> values.beampath]

\* What get_model, called now with the key of the model just stored, can return.
StoredThenGot(o) ==
    /\ o.outcome = "ok"
    /\ Len(o.value) = 1
    /\ o.value[1].model_id = call.value[1]
    /\ \A k \in DOMAIN call.args : o.value[1][k] = call.args[k]

\* C3 as written: after a successful store_model, get_model by author, laboratory,
\* facility and beampath returns the stored fields under the returned identifier,
\* whatever the database already holds.
C3_StoreThenGet ==
    (call.op = "store_model" /\ call.outcome = "ok" /\ Len(call.value) = 1)
    => \A o \in get_model(ModelKey(call.args)) : StoredThenGot(o)

\* C3 amended: after a successful store_model, get_model by author, laboratory,
\* facility and beampath returns a record with these four fields; when no other
\* row has them, the record has the stored description and the returned identifier.
C3_StoreThenGetUnique ==
    (call.op = "store_model" /\ call.outcome = "ok" /\ Len(call.value) = 1)
    => \A o \in get_model(ModelKey(call.args)) :
        /\ o.outcome = "ok"
        /\ Len(o.value) = 1
        /\ ModelKey(o.value[1]) = ModelKey(call.args)
        /\ Cardinality(MatchingRows("model", ModelKey(call.args))) = 1 => StoredThenGot(o)

\* C3 witness: a model was stored in a database that holds another model, of another
\* author.
C3_Witness ==
    /\ call.op = "store_model"
    /\ call.outcome = "ok"
    /\ Len(models) >= 2
    /\ Cardinality(MatchingRows("model", ModelKey(call.args))) = 1

RowsOf(deployment_id) == {r \in Range(dependencies) : r.deployment_id = deployment_id}

\* C5: a successful store_dependencies of N descriptors returns N identifiers (none
\* is returned as null), each of a row of that deployment; the deployment never
\* has fewer rows than were stored for it, and get_dependencies returns them all.
C5_AllOrNothing ==
    /\ (call.op = "store_dependencies" /\ call.outcome = "ok")
        => LET n == Len(call.args.dependencies)
           IN  IF n = 0
               THEN Len(call.value) = 0
               ELSE /\ Len(call.value) = 1
                    /\ Len(call.value[1]) = n
                    /\ Cardinality(Range(call.value[1])) = n
                    /\ \A id \in Range(call.value[1]) :
                        \E r \in RowsOf(call.args.deployment_id) : r.id = id
    /\ \A d \in DOMAIN dep_stored : Cardinality(RowsOf(d)) >= dep_stored[d]
    /\ (call.op = "get_dependencies" /\ StoredCount(call.args.deployment_id) > 0)
        => /\ call.outcome = "ok"
           /\ Len(call.value[1]) >= StoredCount(call.args.deployment_id)

\* C5 witness: two descriptors were stored for a deployment in one call, and
\* get_dependencies was then called for it.
C5_Witness ==
    /\ call.op = "get_dependencies"
    /\ call.outcome = "ok"
    /\ StoredCount(call.args.deployment_id) = 2
    /\ Len(call.value[1]) = 2

Rows(t) == Range(t)

Kept(t) == t' = t \/ Rows(t) \subseteq Rows(t')

\* C7: every row stays, unchanged; rows are added only by a store call; a lookup,
\* and a call that fails with a not-found or a validation error, changes no table.
C7_AppendOnly ==
    [][/\ Kept(models) /\ Kept(deployments) /\ Kept(projects) /\ Kept(flows)
       /\ Kept(flow_of_flows) /\ Kept(dependency_types) /\ Kept(dependencies)
       /\ (tables' # tables => call'.op \in StoreOps)
       /\ (\/ call'.op \in LookupOps
           \/ call'.outcome = "ValidationError"
           \/ call'.outcome \in {LookupError(op) : op \in LookupOps})
            => tables' = tables]_vars

\* C7 witness: rows were stored, and a lookup then failed with a not-found error.
C7_Witness ==
    /\ inserted >= 2
    /\ projects # <<>>
    /\ call.op = "get_project"
    /\ call.outcome = "ProjectNotFoundError"

Finished(p) == pc[p] = "done"

RowOf(p) == {r \in Range(deployments) : <<r.deployment_id>> = ret[p]}

\* C10: however concurrent store_deployment calls for one model interleave, none
\* fails; every insert adds a row of its own, and every call that has returned has
\* returned the identifier of the row holding its own values, different from the
\* identifier any other call returned.
C10_IndependentRows ==
    /\ \A p \in Callers : pc[p] # "raised"
    /\ Len(deployments) = 1 + Cardinality({p \in Callers : pc[p] \in {"return", "done"}})
    /\ Cardinality(Ids(deployments, "deployment_id")) = Len(deployments)
    /\ \A p \in Callers : Finished(p) =>
        /\ Len(ret[p]) = 1
        /\ \E r \in RowOf(p) : \A k \in DOMAIN stmt[p].values : r[k] = stmt[p].values[k]
    /\ \A p, q \in Callers : (Finished(p) /\ Finished(q) /\ p # q) => ret[p] # ret[q]

\* C10 witness: every caller has returned, all for the same model, after the inserts
\* ran in the order opposite to the callers' numbers.
C10_Witness ==
    /\ \A p \in Callers : Finished(p)
    /\ \A p, q \in Callers : stmt[p].values.model_id = stmt[q].values.model_id
    /\ \A p, q \in Callers : p < q => ret[p][1] > ret[q][1]

\* C6: get_run fails with a not-found error, and produces no run descriptor, when the
\* working directory of the run configuration does not exist in the "local" namespace.
C6_MissingDirectoryFails ==
    (/\ call.op = "get_run"
     /\ call.args.working_dir # None
     /\ ~dir_exists("local", call.args.working_dir))
    => /\ call.outcome = "FileNotFoundError"
       /\ Len(call.value) = 0

====
